---- MODULE Spec2Model ----
(***************************************************************************)
(* The weather service of go/go-6/main.go: the /weather pipeline           *)
(* (getLatLong with the cities table as a cache, getWeather,               *)
(* extractWeatherData), the /stats listing (getLastCities) and the cities  *)
(* table of the schema.  Requests run concurrently; a request can be       *)
(* interleaved with others at each blocking call (database or HTTP).       *)
(***************************************************************************)
EXTENDS Integers, Sequences, FiniteSets, TLC

(***************************************************************************)
(* Bounds of the model.                                                    *)
(***************************************************************************)
\* handlers of /weather that can be in flight at the same time
MaxActive == 2
\* /weather requests started in one behaviour of the concurrent service
MaxReq == 2
\* /weather requests started in one behaviour of the service used by one
\* client at a time
MaxSeqReq == 3
\* rows the store-level specification inserts
MaxRows == 11
\* entries of the time array and of the temperature array of a forecast
\* payload handed to extractWeatherData on its own
MaxEntries == 3

Slots == 1..MaxActive

\* no error
Nil == "nil"
\* a *LatLong is a sequence: empty for the nil pointer, else of the one value
NilLatLong == <<>>
Ptr(latLong) == <<latLong>>
Deref(p) == p[1]

(***************************************************************************)
(* Data: city names as submitted, coordinates in hundredths of a degree.   *)
(***************************************************************************)
\* two names that differ only in the case of a letter
Names == {"Berlin", "berlin"}

\* a name in lower case
ToLower(name) == IF name = "Berlin" THEN "berlin" ELSE name

LatLong(lat, long) == [Latitude |-> lat, Longitude |-> long]

CoordA == LatLong(5252, 1340)
CoordB == LatLong(4886, 235)
Coords == {CoordA, CoordB}

\* what the geocoding service can answer to one GET
GeoReplies ==
  {[kind |-> "neterr", results |-> <<>>], [kind |-> "badjson", results |-> <<>>]}
  \cup {[kind |-> "ok", results |-> rs] :
          rs \in {<<>>, <<CoordA>>, <<CoordB, CoordA>>}}

(***************************************************************************)
(* Errors, by the message or the sentinel the code produces.               *)
(***************************************************************************)
ErrNoRows == "sql: no rows in result set"
ErrStore == "store error"
ErrGeoRequest == "error making request to Geo API"
ErrGeoDecode == "error decoding response"
ErrNoResults == "no results found"
ErrWeatherRequest == "error making request to Weather API"
ErrWeatherRead == "error reading response body"
ErrWeatherDecode == "error decoding weather response"
ErrTimeParse == "parsing time"
ErrIndexRange == "index out of range"

(***************************************************************************)
(* The cities table: a set of rows; id is the SERIAL primary key.          *)
(***************************************************************************)
\* the row if insertCity bound latitude and longitude the other way round
RowSwapped(id, name, latLong) ==
  [id |-> id, name |-> name, lat |-> latLong.Longitude, long |-> latLong.Latitude]

Row(id, name, latLong) ==
  [id |-> id, name |-> name, lat |-> latLong.Latitude, long |-> latLong.Longitude]

\* WHERE name = $1 if names were compared without regard to case
RowsNamedAnyCase(table, name) == {row \in table : ToLower(row.name) = ToLower(name)}

\* WHERE name = $1
RowsNamed(table, name) == {row \in table : row.name = name}

\* nextval of the sequence behind id SERIAL
nextval(serial) == serial + 1

\* insertCity if it skipped names the table already holds
insertCityUnique(table, id, name, latLong, outcome) ==
  CASE outcome = "ok" /\ RowsNamed(table, name) # {} ->
         [cities |-> table, err |-> Nil]
    [] outcome = "ok" /\ RowsNamed(table, name) = {} ->
         [cities |-> table \cup {Row(id, name, latLong)}, err |-> Nil]
    [] outcome = "fail" ->
         [cities |-> table, err |-> ErrStore]

\* insertCity if it replaced the rows of the name
insertCityReplace(table, id, name, latLong, outcome) ==
  CASE outcome = "ok" ->
         [cities |-> (table \ RowsNamed(table, name)) \cup {Row(id, name, latLong)},
          err |-> Nil]
    [] outcome = "fail" ->
         [cities |-> table, err |-> ErrStore]

\* INSERT INTO cities (name, lat, long) VALUES ($1, $2, $3), from the value id
\* the statement took of the sequence to its end: the row (id, name, lat,
\* long) joins the table as it is then, or the statement fails and nothing
\* is inserted (the value taken is not given back).
insertCity(table, id, name, latLong, outcome) ==
  CASE outcome = "ok" ->
         [cities |-> table \cup {Row(id, name, latLong)}, err |-> Nil]
    [] outcome = "fail" ->
         [cities |-> table, err |-> ErrStore]

InsertOutcomes == {"ok", "fail"}

MaxId(table) == CHOOSE i \in {row.id : row \in table} : \A row \in table : row.id <= i

RowWithId(table, i) == CHOOSE row \in table : row.id = i

\* the LIMIT of the listing query
Limit == 10

MinId(table) == CHOOSE i \in {row.id : row \in table} : \A row \in table : row.id >= i

\* the listing if it were ordered by ascending id
RECURSIVE OrderByIdAsc(_, _)
OrderByIdAsc(table, limit) ==
  IF table = {} \/ limit = 0 THEN <<>>
  ELSE LET top == RowWithId(table, MinId(table))
       IN <<top.name>> \o OrderByIdAsc(table \ {top}, limit - 1)

RECURSIVE OrderByIdDesc(_, _)
OrderByIdDesc(table, limit) ==
  IF table = {} \/ limit = 0 THEN <<>>
  ELSE LET top == RowWithId(table, MaxId(table))
       IN <<top.name>> \o OrderByIdDesc(table \ {top}, limit - 1)

\* a list of names without the repetitions of a name
RECURSIVE Distinct(_)
Distinct(names) ==
  IF names = <<>> THEN <<>>
  ELSE LET rest == Distinct(SubSeq(names, 1, Len(names) - 1))
           last == names[Len(names)]
       IN IF \E i \in 1..Len(rest) : rest[i] = last THEN rest ELSE Append(rest, last)

\* the listing if it were SELECT DISTINCT
getLastCitiesDistinct(table, dbOk) ==
  IF ~dbOk THEN [cities |-> <<>>, err |-> ErrStore]
  ELSE [cities |-> Distinct(OrderByIdDesc(table, Limit)), err |-> Nil]

\* SELECT name FROM cities ORDER BY id DESC LIMIT 10
getLastCities(table, dbOk) ==
  IF ~dbOk THEN [cities |-> <<>>, err |-> ErrStore]
  ELSE [cities |-> OrderByIdDesc(table, Limit), err |-> Nil]

\* the answers of db.Get if the SELECT had no WHERE clause
DbGetAnswersAnyRow(table, name) ==
  {[latLong |-> Ptr(LatLong(row.lat, row.long)), err |-> Nil] : row \in table}
  \cup (IF table = {} THEN {[latLong |-> NilLatLong, err |-> ErrNoRows]} ELSE {})
  \cup {[latLong |-> NilLatLong, err |-> ErrStore]}

\* the answers db.Get can give to SELECT lat, long FROM cities WHERE name = $1:
\* one of the matching rows (no ORDER BY: any of them), sql.ErrNoRows when
\* there is none, or another error at any time
DbGetAnswers(table, name) ==
  {[latLong |-> Ptr(LatLong(row.lat, row.long)), err |-> Nil] : row \in RowsNamed(table, name)}
  \cup (IF RowsNamed(table, name) = {} THEN {[latLong |-> NilLatLong, err |-> ErrNoRows]} ELSE {})
  \cup {[latLong |-> NilLatLong, err |-> ErrStore]}

(***************************************************************************)
(* fetchLatLong: the geocoding call, decoded.                              *)
(***************************************************************************)
\* fetchLatLong if it took the last result
fetchLatLongLast(reply) ==
  IF reply.kind = "neterr" THEN [latLong |-> NilLatLong, err |-> ErrGeoRequest]
  ELSE IF reply.kind = "badjson" THEN [latLong |-> NilLatLong, err |-> ErrGeoDecode]
  ELSE IF Len(reply.results) < 1 THEN [latLong |-> NilLatLong, err |-> ErrNoResults]
  ELSE [latLong |-> Ptr(reply.results[Len(reply.results)]), err |-> Nil]

\* fetchLatLong if it returned a zero value for an empty result list
fetchLatLongNoCheck(reply) ==
  IF reply.kind = "neterr" THEN [latLong |-> NilLatLong, err |-> ErrGeoRequest]
  ELSE IF reply.kind = "badjson" THEN [latLong |-> NilLatLong, err |-> ErrGeoDecode]
  ELSE IF Len(reply.results) < 1 THEN [latLong |-> Ptr(LatLong(0, 0)), err |-> Nil]
  ELSE [latLong |-> Ptr(reply.results[1]), err |-> Nil]

fetchLatLong(reply) ==
  IF reply.kind = "neterr" THEN [latLong |-> NilLatLong, err |-> ErrGeoRequest]
  ELSE IF reply.kind = "badjson" THEN [latLong |-> NilLatLong, err |-> ErrGeoDecode]
  ELSE IF Len(reply.results) < 1 THEN [latLong |-> NilLatLong, err |-> ErrNoResults]
  ELSE [latLong |-> Ptr(reply.results[1]), err |-> Nil]

(***************************************************************************)
(* getWeather: the forecast call.  The status code of the response is not  *)
(* read; the body is returned as it came.                                  *)
(***************************************************************************)
\* forecast payloads: raw names the text; json is what the text is as JSON:
\* "invalid" (not JSON), "object", "array" (or another value that is not an
\* object), "null", or "mistyped" (an object whose hourly is not an object
\* of arrays); time and temperature_2m are the arrays of hourly, empty where
\* the text has none
Body(raw, json, time, temps) ==
  [raw |-> raw, json |-> json, time |-> time, temperature_2m |-> temps]

\* the empty string
EmptyBody == Body("", "invalid", <<>>, <<>>)

\* json.Unmarshal([]byte(rawWeather), &weatherResponse) returns no error: an
\* object fills the fields it has, null leaves the zero value; text that is
\* not JSON, a value that is not an object, a field of the wrong type fail
Unmarshals(body) == body.json \in {"object", "null"}

\* getWeather if it took a status of 400 or more for a failure
getWeatherCheckStatus(reply) ==
  IF reply.kind = "neterr" THEN [body |-> EmptyBody, err |-> ErrWeatherRequest]
  ELSE IF reply.kind = "readerr" THEN [body |-> EmptyBody, err |-> ErrWeatherRead]
  ELSE IF reply.code >= 400 THEN [body |-> EmptyBody, err |-> ErrWeatherRequest]
  ELSE [body |-> reply.body, err |-> Nil]

getWeather(reply) ==
  IF reply.kind = "neterr" THEN [body |-> EmptyBody, err |-> ErrWeatherRequest]
  ELSE IF reply.kind = "readerr" THEN [body |-> EmptyBody, err |-> ErrWeatherRead]
  ELSE [body |-> reply.body, err |-> Nil]

(***************************************************************************)
(* Timestamps.  A time string is modelled by its fields: <<y, mo, d, h, mi>>*)
(* stands for "YYYY-MM-DDTHH:MM" and <<y, mo, d>> for "YYYY-MM-DD".        *)
(***************************************************************************)
IsLeap(y) == (y % 4 = 0 /\ y % 100 # 0) \/ y % 400 = 0

DaysIn(y, mo) ==
  IF mo = 2 THEN (IF IsLeap(y) THEN 29 ELSE 28)
  ELSE IF mo \in {4, 6, 9, 11} THEN 30 ELSE 31

\* time.Parse("2006-01-02T15:04", t) succeeds
ParseOk(t) ==
  /\ Len(t) = 5
  /\ t[1] \in 0..9999
  /\ t[2] \in 1..12
  /\ t[3] >= 1 /\ t[3] <= DaysIn(t[1], t[2])
  /\ t[4] \in 0..23
  /\ t[5] \in 0..59

LeapsThrough(y) == (y \div 4) - (y \div 100) + (y \div 400)

RECURSIVE DaysBeforeMonth(_, _)
DaysBeforeMonth(y, mo) ==
  IF mo = 1 THEN 0 ELSE DaysBeforeMonth(y, mo - 1) + DaysIn(y, mo - 1)

\* days from 0001-01-01 (a Monday) to the date
DayNumber(y, mo, d) ==
  365 * (y - 1) + LeapsThrough(y - 1) + DaysBeforeMonth(y, mo) + (d - 1)

WeekdayNames == <<"Mon", "Tue", "Wed", "Thu", "Fri", "Sat", "Sun">>
MonthNames == <<"Jan", "Feb", "Mar", "Apr", "May", "Jun",
                "Jul", "Aug", "Sep", "Oct", "Nov", "Dec">>

\* a number below 10^len as len decimal digits, zeros in front
Digits(n, len) == [i \in 1..len |-> (n \div (10 ^ (len - i))) % 10]

\* date.Format("Mon, 2 Jan 15:04") if the calendar were counted from a Sunday
FormatDateSundayFirst(t) ==
  [weekday |-> WeekdayNames[((DayNumber(t[1], t[2], t[3]) + 6) % 7) + 1],
   day |-> t[3], month |-> MonthNames[t[2]],
   hour |-> Digits(t[4], 2), minute |-> Digits(t[5], 2)]

\* date.Format("Mon, 2 Jan 15:04"): the weekday, the day without padding, the
\* month, the hour and the minute in two digits each
FormatDate(t) ==
  [weekday |-> WeekdayNames[(DayNumber(t[1], t[2], t[3]) % 7) + 1],
   day |-> t[3], month |-> MonthNames[t[2]],
   hour |-> Digits(t[4], 2), minute |-> Digits(t[5], 2)]

(***************************************************************************)
(* Temperatures.  A JSON number of up to three decimals is modelled by its *)
(* thousandths m.  json.Unmarshal makes of it the float64 nearest to       *)
(* m / 1000: with 2^e <= m / 1000 < 2^(e+1) and k = 52 - e, the integer    *)
(* nearest to m * 2^k / 1000 (the even one of two), over 2^k.              *)
(***************************************************************************)
RECURSIVE Pow2Mod(_, _)
Pow2Mod(k, n) == IF k = 0 THEN 1 % n ELSE (2 * Pow2Mod(k - 1, n)) % n

\* the j with 1000 <= m * 2^j < 2000, for 0 < m < 1000
RECURSIVE HalvingsBelowOne(_)
HalvingsBelowOne(m) == IF m >= 1000 THEN 0 ELSE 1 + HalvingsBelowOne(2 * m)

\* the e with 1000 * 2^e <= m < 2000 * 2^e, for m >= 1000
RECURSIVE DoublingsAboveOne(_)
DoublingsAboveOne(m) == IF m < 2000 THEN 0 ELSE 1 + DoublingsAboveOne(m \div 2)

\* k = 52 - e
MantissaShift(m) ==
  IF m < 1000 THEN 52 + HalvingsBelowOne(m) ELSE 52 - DoublingsAboveOne(m)

\* where the float64 of m thousandths (m > 0) lies: -1 below m / 1000, 0 on
\* it, 1 above it.  m * 2^k = 1000 * n + r; r and the parity of n are read
\* from m * 2^k modulo 2000
Float64Side(m) ==
  LET R == ((m % 2000) * Pow2Mod(MantissaShift(m), 2000)) % 2000
      r == R % 1000
  IN IF r = 0 THEN 0
     ELSE IF r < 500 THEN -1
     ELSE IF r > 500 THEN 1
     ELSE IF R >= 1000 THEN 1 ELSE -1

\* fmt.Sprintf("%.<prec>f", x) for the float64 x of milli thousandths: the
\* sign, the digits before the point and prec digits after it, of the
\* decimal of prec places nearest to x (the even one when x is half way)
FormatFloat(milli, prec) ==
  LET a == IF milli < 0 THEN -milli ELSE milli
      unit == 10 ^ (3 - prec)
      q == a \div unit
      r == a % unit
      side == IF a = 0 THEN 0 ELSE Float64Side(a)
      up == \/ 2 * r > unit
            \/ 2 * r = unit /\ (side > 0 \/ (side = 0 /\ q % 2 = 1))
      n == IF up THEN q + 1 ELSE q
  IN [neg |-> milli < 0,
      whole |-> n \div (10 ^ prec),
      frac |-> Digits(n % (10 ^ prec), prec)]

\* fmt.Sprintf("%.1f°C", x)
FormatTemperature(milli) == [number |-> FormatFloat(milli, 1), suffix |-> "°C"]

EmptyDisplay == [City |-> "", Forecasts |-> <<>>]

\* one entry of the display
Forecast(t, x) == [Date |-> FormatDate(t), Temperature |-> FormatTemperature(x)]

\* the loop if each forecast were put in front of the earlier ones
RECURSIVE ForecastLoopPrepend(_, _, _, _)
ForecastLoopPrepend(city, body, i, forecasts) ==
  IF i > Len(body.time) THEN
    [display |-> [City |-> city, Forecasts |-> forecasts], err |-> Nil]
  ELSE IF ~ParseOk(body.time[i]) THEN
    [display |-> EmptyDisplay, err |-> ErrTimeParse]
  ELSE IF i > Len(body.temperature_2m) THEN
    [display |-> EmptyDisplay, err |-> ErrIndexRange]
  ELSE
    ForecastLoopPrepend(city, body, i + 1,
      <<Forecast(body.time[i], body.temperature_2m[i])>> \o forecasts)

\* the loop if a time-parse error returned what was converted so far
RECURSIVE ForecastLoopKeepConverted(_, _, _, _)
ForecastLoopKeepConverted(city, body, i, forecasts) ==
  IF i > Len(body.time) THEN
    [display |-> [City |-> city, Forecasts |-> forecasts], err |-> Nil]
  ELSE IF ~ParseOk(body.time[i]) THEN
    [display |-> [City |-> city, Forecasts |-> forecasts], err |-> ErrTimeParse]
  ELSE IF i > Len(body.temperature_2m) THEN
    [display |-> EmptyDisplay, err |-> ErrIndexRange]
  ELSE
    ForecastLoopKeepConverted(city, body, i + 1,
      Append(forecasts, Forecast(body.time[i], body.temperature_2m[i])))

\* the loop if it stopped at the first time entry without a temperature
RECURSIVE ForecastLoopTruncate(_, _, _, _)
ForecastLoopTruncate(city, body, i, forecasts) ==
  IF i > Len(body.time) \/ i > Len(body.temperature_2m) THEN
    [display |-> [City |-> city, Forecasts |-> forecasts], err |-> Nil]
  ELSE IF ~ParseOk(body.time[i]) THEN
    [display |-> EmptyDisplay, err |-> ErrTimeParse]
  ELSE
    ForecastLoopTruncate(city, body, i + 1,
      Append(forecasts, Forecast(body.time[i], body.temperature_2m[i])))

\* for i, t := range weatherResponse.Hourly.Time: the timestamp is parsed
\* before Temperature2m[i] is read, and reading past the end panics
RECURSIVE ForecastLoop(_, _, _, _)
ForecastLoop(city, body, i, forecasts) ==
  IF i > Len(body.time) THEN
    [display |-> [City |-> city, Forecasts |-> forecasts], err |-> Nil]
  ELSE IF ~ParseOk(body.time[i]) THEN
    [display |-> EmptyDisplay, err |-> ErrTimeParse]
  ELSE IF i > Len(body.temperature_2m) THEN
    [display |-> EmptyDisplay, err |-> ErrIndexRange]
  ELSE
    ForecastLoop(city, body, i + 1,
      Append(forecasts, Forecast(body.time[i], body.temperature_2m[i])))

\* extractWeatherData if a payload without time entries were an error
extractWeatherDataNeedsHourly(city, body) ==
  IF ~Unmarshals(body) \/ body.time = <<>>
  THEN [display |-> EmptyDisplay, err |-> ErrWeatherDecode]
  ELSE ForecastLoop(city, body, 1, <<>>)

extractWeatherData(city, body) ==
  IF ~Unmarshals(body) THEN [display |-> EmptyDisplay, err |-> ErrWeatherDecode]
  ELSE ForecastLoop(city, body, 1, <<>>)

TimeGood == <<2024, 6, 1, 12, 0>>
TimeBad == <<2024, 13, 40>>

BodyGood == Body("good", "object", <<TimeGood>>, <<21400>>)
BodyBadJson == Body("garbage", "invalid", <<>>, <<>>)
BodyNoHourly == Body("error object", "object", <<>>, <<>>)
BodyBadTime == Body("bad time", "object", <<TimeBad>>, <<21400>>)
BodyMismatch == Body("mismatch", "object", <<TimeGood, TimeGood>>, <<21400>>)
BodyArray == Body("[]", "array", <<>>, <<>>)
BodyNull == Body("null", "null", <<>>, <<>>)
BodyHourlyMistyped == Body("hourly is a string", "mistyped", <<>>, <<>>)

WeatherReplies ==
  {[kind |-> "neterr", code |-> 0, body |-> EmptyBody],
   [kind |-> "readerr", code |-> 200, body |-> EmptyBody],
   [kind |-> "ok", code |-> 400, body |-> BodyNoHourly]}
  \cup {[kind |-> "ok", code |-> 200, body |-> b] :
          b \in {BodyGood, BodyBadJson, BodyBadTime, BodyMismatch}}

(***************************************************************************)
(* State.                                                                  *)
(*   cities     the rows of the cities table                               *)
(*   seq        the last value the SERIAL sequence of cities.id gave       *)
(*   req        per handler of /weather: its position and its locals, and  *)
(*              a record of the calls it made; a handler that has answered *)
(*              is "done" in the state after its last step and gone after  *)
(*              the next step of the service                               *)
(*   statsResp  the response of /stats, in the state after the step that   *)
(*              sent it                                                    *)
(*   indexResp  the response of /, in the state after the step that sent it *)
(*   hist       what happened so far: requests started, whether all that   *)
(*              answered answered 200, the city of the last one that did,  *)
(*              the cities that did                                        *)
(***************************************************************************)
VARIABLES cities, seq, req, statsResp, indexResp, hist

vars == <<cities, seq, req, statsResp, indexResp, hist>>

NoReply == [kind |-> "none", results |-> <<>>]

\* hist.geocoder where the geocoding service is tied to no answer per name
AnyAnswer == [c \in Names |-> NoReply]

NoWeatherReply == [kind |-> "none", code |-> 0, body |-> EmptyBody]

\* a handler before it starts
NewReq(c) ==
  [pc |-> "get", city |-> c, latlong |-> NilLatLong, fetched |-> NilLatLong,
   err |-> Nil, weather |-> EmptyBody, extracted |-> EmptyDisplay,
   status |-> 0, sent |-> "nothing", display |-> EmptyDisplay,
   getErr |-> "unread", geoReply |-> NoReply,
   insertErr |-> "none", wxErr |-> "none", wxReply |-> NoWeatherReply,
   rowId |-> 0,
   dbGets |-> 0, geoCalls |-> 0, inserts |-> 0, wxCalls |-> 0, fmtCalls |-> 0]

IdleReq == [NewReq("") EXCEPT !.pc = "idle"]

Running(rec) == rec.pc \notin {"idle", "done"}

NoStats ==
  [status |-> 0, cities |-> <<>>, storeReads |-> 0,
   creds |-> [user |-> "", pass |-> ""]]

NoPage == [status |-> 0, page |-> ""]

Init ==
  /\ cities = {}
  /\ seq = 0
  /\ req = [r \in Slots |-> IdleReq]
  /\ statsResp = NoStats
  /\ indexResp = NoPage
  /\ hist = [started |-> 0, geoOk |-> 0, allOk |-> TRUE,
             lastOk |-> "", okCities |-> {}, geocoder |-> AnyAnswer]

(***************************************************************************)
(* The /weather handler.                                                   *)
(***************************************************************************)
\* c.JSON(http.StatusInternalServerError, gin.H{"error": err.Error()}); return
Respond500(rec, e) ==
  [rec EXCEPT !.pc = "done", !.status = 500, !.sent = "json error",
              !.err = e, !.display = EmptyDisplay]

\* a panic in the handler: the Recovery middleware of gin.Default() aborts
\* the request with status 500 and writes no body
Recovered500(rec, e) ==
  [rec EXCEPT !.pc = "done", !.status = 500, !.sent = "nothing",
              !.err = e, !.display = EmptyDisplay]

\* getLatLong returns nil, err; the handler answers with the error
ResolveFailed(rec, e) == Respond500([rec EXCEPT !.latlong = NilLatLong], e)

\* getLatLong after db.Get if it refreshed the stored row on every call
AfterGetRefresh(rec, ans) ==
  LET r1 == [rec EXCEPT !.dbGets = @ + 1, !.getErr = ans.err]
  IN [r1 EXCEPT !.latlong = ans.latLong, !.pc = "fetch"]

\* getLatLong after db.Get: a row read without error is returned, anything
\* else goes on to fetchLatLong
AfterGet(rec, ans) ==
  LET r1 == [rec EXCEPT !.dbGets = @ + 1, !.getErr = ans.err]
  IN IF ans.err = Nil
     THEN [r1 EXCEPT !.latlong = ans.latLong, !.pc = "weather"]
     ELSE [r1 EXCEPT !.pc = "fetch"]

\* getLatLong after fetchLatLong if it went on to insertCity after an error
AfterFetchIgnoreErr(rec, reply) ==
  LET res == fetchLatLong(reply)
      r1 == [rec EXCEPT !.geoCalls = @ + 1, !.geoReply = reply]
  IN [r1 EXCEPT !.fetched = IF res.err # Nil THEN Ptr(LatLong(0, 0)) ELSE res.latLong,
                !.pc = "insert"]

\* getLatLong after fetchLatLong
AfterFetch(rec, reply) ==
  LET res == fetchLatLong(reply)
      r1 == [rec EXCEPT !.geoCalls = @ + 1, !.geoReply = reply]
  IN IF res.err # Nil
     THEN ResolveFailed(r1, res.err)
     ELSE [r1 EXCEPT !.fetched = res.latLong, !.pc = "insert"]

\* getLatLong after insertCity if it dropped the error of the insert
AfterInsertIgnoreErr(rec, res) ==
  [rec EXCEPT !.inserts = @ + 1, !.insertErr = res.err, !.rowId = 0,
              !.latlong = rec.fetched, !.pc = "weather"]

\* getLatLong after insertCity
AfterInsert(rec, res) ==
  LET r1 == [rec EXCEPT !.inserts = @ + 1, !.insertErr = res.err, !.rowId = 0]
  IN IF res.err # Nil
     THEN ResolveFailed(r1, res.err)
     ELSE [r1 EXCEPT !.latlong = rec.fetched, !.pc = "weather"]

\* the handler's extractWeatherData and its response; an index out of range
\* panics and gin's recovery answers 500
AfterExtract(rec) ==
  LET res == extractWeatherData(rec.city, rec.weather)
      r1 == [rec EXCEPT !.fmtCalls = @ + 1]
  IN IF res.err = ErrIndexRange
     THEN Recovered500(r1, res.err)
     ELSE IF res.err # Nil
     THEN Respond500([r1 EXCEPT !.extracted = res.display], res.err)
     ELSE [r1 EXCEPT !.pc = "done", !.status = 200, !.sent = "weather.html",
                     !.extracted = res.display, !.display = res.display]

\* the handler after getWeather if the return after the error were missing
AfterWeatherNoReturn(rec, reply) ==
  LET res == getWeather(reply)
      r1 == [rec EXCEPT !.wxCalls = @ + 1, !.wxErr = res.err, !.wxReply = reply]
  IN AfterExtract([r1 EXCEPT !.weather = res.body])

\* the handler after getWeather: an error is answered, a body is formatted
AfterWeather(rec, reply) ==
  LET res == getWeather(reply)
      r1 == [rec EXCEPT !.wxCalls = @ + 1, !.wxErr = res.err, !.wxReply = reply]
  IN IF res.err # Nil
     THEN Respond500(r1, res.err)
     ELSE AfterExtract([r1 EXCEPT !.weather = res.body])

\* the history after a handler moved to rec: a handler is at "insert" right
\* after fetchLatLong returned coordinates, and at "done" after its answer
Account(h, rec) ==
  IF rec.pc = "insert" THEN [h EXCEPT !.geoOk = @ + 1]
  ELSE IF rec.pc # "done" THEN h
  ELSE [h EXCEPT !.allOk = @ /\ rec.status = 200,
                 !.lastOk = IF rec.status = 200 THEN rec.city ELSE @,
                 !.okCities = IF rec.status = 200 THEN @ \cup {rec.city} ELSE @]

\* the handlers without those that have answered
Retired == [s \in Slots |-> IF req[s].pc = "done" THEN IdleReq ELSE req[s]]

Step(r, rec) ==
  /\ req' = [Retired EXCEPT ![r] = rec]
  /\ hist' = Account(hist, rec)
  /\ statsResp' = NoStats
  /\ indexResp' = NoPage

\* GET /weather?city=c arrives and gets a handler
Begin(r, c) ==
  /\ req' = [Retired EXCEPT ![r] = NewReq(c)]
  /\ hist' = [hist EXCEPT !.started = @ + 1]
  /\ statsResp' = NoStats
  /\ indexResp' = NoPage
  /\ UNCHANGED <<cities, seq>>

\* handlers are taken in order: the first that is not running
Start(r, c) ==
  /\ ~Running(req[r])
  /\ \A s \in Slots : s < r => Running(req[s])
  /\ hist.started < MaxReq
  /\ Begin(r, c)

\* db.Get(&latLong, "SELECT lat, long FROM cities WHERE name = $1", name)
DbGet(r) ==
  /\ req[r].pc = "get"
  /\ \E ans \in DbGetAnswers(cities, req[r].city) :
       Step(r, AfterGet(req[r], ans))
  /\ UNCHANGED <<cities, seq>>

\* latLong, err = fetchLatLong(name)
FetchLatLong(r) ==
  /\ req[r].pc = "fetch"
  /\ \E reply \in GeoReplies : Step(r, AfterFetch(req[r], reply))
  /\ UNCHANGED <<cities, seq>>

\* err = insertCity(db, name, *latLong), first part: the statement reaches
\* the database and takes the next value of the sequence for its row, or
\* fails before (connection lost) and the error is returned
InsertCity(r) ==
  /\ req[r].pc = "insert"
  /\ \/ /\ seq' = nextval(seq)
        /\ Step(r, [req[r] EXCEPT !.rowId = nextval(seq), !.pc = "commit"])
     \/ /\ seq' = seq
        /\ Step(r, AfterInsert(req[r], [cities |-> cities, err |-> ErrStore]))
  /\ UNCHANGED cities

\* err = insertCity(db, name, *latLong), second part: the statement ends and
\* its row is in the table, or it fails; statements of other handlers may
\* have taken later values and ended in between
InsertCityEnd(r) ==
  /\ req[r].pc = "commit"
  /\ \E outcome \in InsertOutcomes :
       LET res == insertCity(cities, req[r].rowId, req[r].city,
                             Deref(req[r].fetched), outcome)
       IN /\ cities' = res.cities
          /\ Step(r, AfterInsert(req[r], res))
  /\ UNCHANGED seq

\* weather, err := getWeather(*latlong), then
\* weatherDisplay, err := extractWeatherData(city, weather) and the response
GetWeather(r) ==
  /\ req[r].pc = "weather"
  /\ \E reply \in WeatherReplies : Step(r, AfterWeather(req[r], reply))
  /\ UNCHANGED <<cities, seq>>

(***************************************************************************)
(* The /stats handler behind gin.BasicAuth.                                *)
(***************************************************************************)
Credentials ==
  {[user |-> "forecast", pass |-> "forecast"],
   [user |-> "forecast", pass |-> "wrong"],
   [user |-> "", pass |-> ""]}

Authorized(creds) == creds.user = "forecast" /\ creds.pass = "forecast"

\* the route if the handler were registered without the middleware
StatsHandlerOpen(table, creds, dbOk) ==
  LET res == getLastCities(table, dbOk)
  IN IF res.err # Nil
     THEN [status |-> 500, cities |-> <<>>, storeReads |-> 1, creds |-> creds]
     ELSE [status |-> 200, cities |-> res.cities, storeReads |-> 1, creds |-> creds]

\* gin.BasicAuth aborts with 401 unless the credentials are an account, and
\* only then the handler runs: getLastCities, 500 on its error, else the list
StatsHandler(table, creds, dbOk) ==
  IF ~Authorized(creds)
  THEN [status |-> 401, cities |-> <<>>, storeReads |-> 0, creds |-> creds]
  ELSE LET res == getLastCities(table, dbOk)
       IN IF res.err # Nil
          THEN [status |-> 500, cities |-> <<>>, storeReads |-> 1, creds |-> creds]
          ELSE [status |-> 200, cities |-> res.cities, storeReads |-> 1, creds |-> creds]

Stats(creds, dbOk) ==
  /\ statsResp' = StatsHandler(cities, creds, dbOk)
  /\ indexResp' = NoPage
  /\ req' = Retired
  /\ UNCHANGED <<cities, seq, hist>>

(***************************************************************************)
(* The / handler: c.HTML(http.StatusOK, "index.html", nil).                *)
(***************************************************************************)
Index ==
  /\ indexResp' = [status |-> 200, page |-> "index.html"]
  /\ statsResp' = NoStats
  /\ req' = Retired
  /\ UNCHANGED <<cities, seq, hist>>

Next ==
  \/ \E r \in Slots, c \in Names : Start(r, c)
  \/ \E r \in Slots : DbGet(r)
  \/ \E r \in Slots : FetchLatLong(r)
  \/ \E r \in Slots : InsertCity(r)
  \/ \E r \in Slots : InsertCityEnd(r)
  \/ \E r \in Slots : GetWeather(r)
  \/ \E creds \in Credentials, dbOk \in BOOLEAN : Stats(creds, dbOk)
  \/ Index

Spec == Init /\ [][Next]_vars

(***************************************************************************)
(* The store on its own: rows are inserted and listed directly.            *)
(***************************************************************************)
StoreInsert(name, latLong) ==
  /\ Cardinality(cities) < MaxRows
  /\ cities' = insertCity(cities, nextval(seq), name, latLong, "ok").cities
  /\ seq' = nextval(seq)
  /\ statsResp' = NoStats
  /\ indexResp' = NoPage
  /\ UNCHANGED <<req, hist>>

NextStore ==
  \/ \E name \in Names : StoreInsert(name, CoordA)
  \/ \E creds \in Credentials, dbOk \in BOOLEAN : Stats(creds, dbOk)
  \/ Index

SpecStore == Init /\ [][NextStore]_vars

(***************************************************************************)
(* The service used by one client at a time: a request starts only when    *)
(* no other is running.                                                    *)
(***************************************************************************)
StartAlone(c) ==
  /\ \A s \in Slots : ~Running(req[s])
  /\ hist.started < MaxSeqReq
  /\ Begin(1, c)

NextSeq ==
  \/ \E c \in Names : StartAlone(c)
  \/ \E r \in Slots : DbGet(r)
  \/ \E r \in Slots : FetchLatLong(r)
  \/ \E r \in Slots : InsertCity(r)
  \/ \E r \in Slots : InsertCityEnd(r)
  \/ \E r \in Slots : GetWeather(r)
  \/ \E creds \in Credentials, dbOk \in BOOLEAN : Stats(creds, dbOk)
  \/ Index

SpecSeq == Init /\ [][NextSeq]_vars

(***************************************************************************)
(* extractWeatherData on its own: a handler holds the body getWeather      *)
(* returned, any of the payloads below, and formats it.                    *)
(***************************************************************************)
\* "2024-02-29T00:05"
TimeLeap == <<2024, 2, 29, 0, 5>>

FormatTimes == {TimeGood, TimeLeap, TimeBad}

\* 21.4, 21.45, 0.25 and -0.04
FormatTemperatures == {21400, 21450, 250, -40}

SeqsUpTo(S, n) == UNION {[1..k -> S] : k \in 0..n}

FormatBodies ==
  {Body("hourly", "object", ts, xs) :
     ts \in SeqsUpTo(FormatTimes, MaxEntries),
     xs \in SeqsUpTo(FormatTemperatures, MaxEntries)}

\* the handler of a request for c whose getLatLong read no row, got CoordA
\* and inserted it, and whose getWeather returned body
HoldsBody(c, body) ==
  LET got == AfterGet(NewReq(c), [latLong |-> NilLatLong, err |-> ErrNoRows])
      fetched == AfterFetch(got, [kind |-> "ok", results |-> <<CoordA>>])
      inserted == AfterInsert(fetched, insertCity({}, nextval(0), c, CoordA, "ok"))
  IN [inserted EXCEPT !.wxCalls = 1, !.wxErr = Nil, !.weather = body,
                      !.wxReply = [kind |-> "ok", code |-> 200, body |-> body],
                      !.pc = "extract"]

InitFormat ==
  \E c \in Names, body \in FormatBodies :
    /\ cities = insertCity({}, nextval(0), c, CoordA, "ok").cities
    /\ seq = nextval(0)
    /\ req = [r \in Slots |-> IF r = 1 THEN HoldsBody(c, body) ELSE IdleReq]
    /\ statsResp = NoStats
    /\ indexResp = NoPage
    /\ hist = [started |-> 1, geoOk |-> 1, allOk |-> TRUE,
               lastOk |-> "", okCities |-> {}, geocoder |-> AnyAnswer]

\* weatherDisplay, err := extractWeatherData(city, weather) and the response
ExtractWeatherData(r) ==
  /\ req[r].pc = "extract"
  /\ Step(r, AfterExtract(req[r]))
  /\ UNCHANGED <<cities, seq>>

NextFormat == \E r \in Slots : ExtractWeatherData(r)

SpecFormat == InitFormat /\ [][NextFormat]_vars

(***************************************************************************)
(* getWeather on its own: a handler that holds coordinates calls the       *)
(* forecast service, which answers with any of the replies below.          *)
(***************************************************************************)
\* status codes of a response
StatusCodes == {200, 301, 400, 404, 429, 500, 503}

FetchBodies ==
  {EmptyBody, BodyGood, BodyBadJson, BodyNoHourly, BodyBadTime, BodyMismatch,
   BodyArray, BodyNull, BodyHourlyMistyped}

\* no response, a response whose body cannot be read, a response read whole
FetchReplies ==
  {[kind |-> "neterr", code |-> 0, body |-> EmptyBody]}
  \cup {[kind |-> "readerr", code |-> code, body |-> EmptyBody] : code \in StatusCodes}
  \cup {[kind |-> "ok", code |-> code, body |-> body] :
          code \in StatusCodes, body \in FetchBodies}

\* the handler of a request for c whose getLatLong read the row of latLong
HoldsLatLong(c, latLong) ==
  AfterGet(NewReq(c), [latLong |-> Ptr(latLong), err |-> Nil])

InitFetch ==
  \E c \in Names, latLong \in Coords :
    /\ cities = insertCity({}, nextval(0), c, latLong, "ok").cities
    /\ seq = nextval(0)
    /\ req = [r \in Slots |-> IF r = 1 THEN HoldsLatLong(c, latLong) ELSE IdleReq]
    /\ statsResp = NoStats
    /\ indexResp = NoPage
    /\ hist = [started |-> 1, geoOk |-> 1, allOk |-> TRUE,
               lastOk |-> "", okCities |-> {}, geocoder |-> AnyAnswer]

\* weather, err := getWeather(*latlong) and what follows in the handler
GetWeatherOf(r) ==
  /\ req[r].pc = "weather"
  /\ \E reply \in FetchReplies : Step(r, AfterWeather(req[r], reply))
  /\ UNCHANGED <<cities, seq>>

NextFetch == \E r \in Slots : GetWeatherOf(r)

SpecFetch == InitFetch /\ [][NextFetch]_vars

(***************************************************************************)
(* The uncached variant (go-3): getLatLong is the geocoding call itself,   *)
(* there is no table; getWeather, extractWeatherData and the rest of the   *)
(* handler are the same text as in the cached variant.                     *)
(***************************************************************************)
\* getLatLong(city) of go-3
getLatLongUncached(reply) ==
  IF reply.kind = "neterr" THEN [latLong |-> NilLatLong, err |-> ErrGeoRequest]
  ELSE IF reply.kind = "badjson" THEN [latLong |-> NilLatLong, err |-> ErrGeoDecode]
  ELSE IF Len(reply.results) < 1 THEN [latLong |-> NilLatLong, err |-> ErrNoResults]
  ELSE [latLong |-> Ptr(reply.results[1]), err |-> Nil]

\* city := c.Param("city"): the handler of go-3 starts with the geocoding call
NewReqUncached(c) == [NewReq(c) EXCEPT !.pc = "fetch"]

\* latlong, err := getLatLong(city) in the handler of go-3
AfterGetLatLongUncached(rec, reply) ==
  LET res == getLatLongUncached(reply)
      r1 == [rec EXCEPT !.geoCalls = @ + 1, !.geoReply = reply]
  IN IF res.err # Nil
     THEN Respond500(r1, res.err)
     ELSE [r1 EXCEPT !.latlong = res.latLong, !.pc = "weather"]

\* weather, err := getWeather(*latlong) and what follows in the handler of go-3
AfterWeatherUncached(rec, reply) ==
  LET res == getWeather(reply)
      r1 == [rec EXCEPT !.wxCalls = @ + 1, !.wxErr = res.err, !.wxReply = reply]
  IN IF res.err # Nil
     THEN Respond500(r1, res.err)
     ELSE AfterExtract([r1 EXCEPT !.weather = res.body])

(***************************************************************************)
(* Both variants side by side: every request goes to the cached variant    *)
(* (handler 1) and to the uncached variant (handler 2), one request at a   *)
(* time.  The geocoding service gives each name one answer, hist.geocoder, *)
(* the forecast service gives both handlers of a request the same reply,   *)
(* and no statement on the store fails.                                    *)
(***************************************************************************)
Geocoders == [Names -> GeoReplies]

InitPair ==
  \E g \in Geocoders :
    /\ cities = {}
    /\ seq = 0
    /\ req = [r \in Slots |-> IdleReq]
    /\ statsResp = NoStats
    /\ indexResp = NoPage
    /\ hist = [started |-> 0, geoOk |-> 0, allOk |-> TRUE,
               lastOk |-> "", okCities |-> {}, geocoder |-> g]

\* handler r moves to rec; the answers of a request stay until the next one
StepPair(r, rec) ==
  /\ req' = [req EXCEPT ![r] = rec]
  /\ hist' = IF r = 1 THEN Account(hist, rec) ELSE hist
  /\ statsResp' = NoStats
  /\ indexResp' = NoPage

\* the request for c arrives at both variants
StartPair(c) ==
  /\ \A s \in Slots : ~Running(req[s])
  /\ hist.started < MaxSeqReq
  /\ req' = [Retired EXCEPT ![1] = NewReq(c), ![2] = NewReqUncached(c)]
  /\ hist' = [hist EXCEPT !.started = @ + 1]
  /\ statsResp' = NoStats
  /\ indexResp' = NoPage
  /\ UNCHANGED <<cities, seq>>

\* db.Get of the cached variant, without a failure of the store
DbGetPair ==
  /\ req[1].pc = "get"
  /\ \E ans \in DbGetAnswers(cities, req[1].city) :
       /\ ans.err # ErrStore
       /\ StepPair(1, AfterGet(req[1], ans))
  /\ UNCHANGED <<cities, seq>>

\* fetchLatLong(name) of the cached variant
FetchPairCached ==
  /\ req[1].pc = "fetch"
  /\ StepPair(1, AfterFetch(req[1], hist.geocoder[req[1].city]))
  /\ UNCHANGED <<cities, seq>>

\* getLatLong(city) of the uncached variant
FetchPairUncached ==
  /\ req[2].pc = "fetch"
  /\ StepPair(2, AfterGetLatLongUncached(req[2], hist.geocoder[req[2].city]))
  /\ UNCHANGED <<cities, seq>>

\* insertCity of the cached variant, which does not fail
InsertPair ==
  /\ req[1].pc = "insert"
  /\ LET res == insertCity(cities, nextval(seq), req[1].city,
                           Deref(req[1].fetched), "ok")
     IN /\ cities' = res.cities
        /\ seq' = nextval(seq)
        /\ StepPair(1, AfterInsert(req[1], res))

\* getWeather and the rest of the handler, in either variant; the forecast
\* service answers the two calls of one request alike
WeatherPair(r) ==
  /\ r \in {1, 2}
  /\ req[r].pc = "weather"
  /\ \E reply \in WeatherReplies :
       /\ \A o \in {1, 2} \ {r} : req[o].wxCalls = 0 \/ req[o].wxReply = reply
       /\ StepPair(r, IF r = 1 THEN AfterWeather(req[r], reply)
                              ELSE AfterWeatherUncached(req[r], reply))
  /\ UNCHANGED <<cities, seq>>

NextPair ==
  \/ \E c \in Names : StartPair(c)
  \/ DbGetPair
  \/ FetchPairCached
  \/ FetchPairUncached
  \/ InsertPair
  \/ \E r \in Slots : WeatherPair(r)

SpecPair == InitPair /\ [][NextPair]_vars

(***************************************************************************)
(* After a race: two requests for one name have each inserted the row of   *)
(* their own geocoding call, with different coordinates, in either order;  *)
(* then the service is used by one client at a time.                       *)
(***************************************************************************)
InitDup ==
  \E c \in Names, first \in Coords, second \in Coords :
    /\ first # second
    /\ cities = insertCity(insertCity({}, nextval(0), c, first, "ok").cities,
                           nextval(nextval(0)), c, second, "ok").cities
    /\ seq = nextval(nextval(0))
    /\ req = [r \in Slots |-> IdleReq]
    /\ statsResp = NoStats
    /\ indexResp = NoPage
    /\ hist = [started |-> MaxSeqReq - 1, geoOk |-> MaxSeqReq - 1, allOk |-> TRUE,
               lastOk |-> "", okCities |-> {}, geocoder |-> AnyAnswer]

SpecDup == InitDup /\ [][NextSeq]_vars

(***************************************************************************)
(* Properties.                                                             *)
(***************************************************************************)
Stored(table, name) == {Ptr(LatLong(row.lat, row.long)) : row \in RowsNamed(table, name)}

\* the step is handler r's db.Get
GetStep(r) == req[r].pc = "get" /\ req'[r].pc # "get"

\* the step is the return of handler r's insertCity
InsertStep(r) ==
  req[r].pc \in {"insert", "commit"} /\ req'[r].pc \notin {"insert", "commit"}

\* the geocoding service gave handler r at least one result
GotResult(rec) ==
  rec.geoCalls = 1 /\ rec.geoReply.kind = "ok" /\ Len(rec.geoReply.results) >= 1

\* C1: when a row of the name exists at the time getLatLong reads the table,
\* getLatLong returns the coordinates of such a row without an error and
\* does not go on to the geocoding service.
C1_CacheHitNoGeocoding ==
  [][\A r \in Slots :
       (GetStep(r) /\ RowsNamed(cities, req[r].city) # {}) =>
         /\ req'[r].pc = "weather"
         /\ req'[r].latlong \in Stored(cities, req[r].city)
         /\ req'[r].geoCalls = 0]_vars

\* C2 as stated: a handler that read no row and got at least one result has,
\* once getLatLong returned, the first result as its coordinates and one
\* successful insert.
C2_MissAlwaysInserts ==
  \A r \in Slots :
    (req[r].getErr = ErrNoRows /\ GotResult(req[r]) /\ req[r].pc \in {"weather", "done"}) =>
      /\ req[r].inserts = 1
      /\ req[r].insertErr = Nil
      /\ req[r].latlong = Ptr(req[r].geoReply.results[1])

\* C2, amended: the insert of a handler that got at least one result either
\* succeeds, and then getLatLong returns the first result and the table has
\* exactly one row more, (name, latitude, longitude) of that result under a
\* new id; or it fails, and then getLatLong returns the store error and no
\* coordinates and the table is as before.
C2_MissInsertsOneRow ==
  [][\A r \in Slots :
       (InsertStep(r) /\ GotResult(req[r])) =>
         LET first == req[r].geoReply.results[1]
         IN \/ /\ req'[r].insertErr = Nil
               /\ req'[r].pc = "weather"
               /\ req'[r].latlong = Ptr(first)
               /\ req'[r].inserts = 1
               /\ \E row \in cities' \ cities :
                    /\ cities' = cities \cup {row}
                    /\ row.name = req[r].city
                    /\ row.lat = first.Latitude
                    /\ row.long = first.Longitude
                    /\ \A old \in cities : old.id # row.id
            \/ /\ req'[r].insertErr = ErrStore
               /\ req'[r].pc = "done"
               /\ req'[r].err = ErrStore
               /\ req'[r].latlong = NilLatLong
               /\ cities' = cities]_vars

\* a handler that read no row, got a result and inserted it
MissInserted(rec) ==
  /\ rec.getErr = ErrNoRows
  /\ GotResult(rec)
  /\ rec.inserts = 1
  /\ rec.insertErr = Nil

C2_Witness ==
  \E r \in Slots :
    /\ MissInserted(req[r])
    /\ req[r].pc = "weather"
    /\ Len(req[r].geoReply.results) = 2
    /\ Cardinality(RowsNamed(cities, req[r].city)) = 1

\* C3: with one client at a time, once a request for c was answered 200, the
\* table holds one row named c and no later request for c calls the
\* geocoding service or inserts.
C3_ServedFromDatabase ==
  \A c \in hist.okCities :
    /\ Cardinality(RowsNamed(cities, c)) = 1
    /\ \A r \in Slots :
         (Running(req[r]) /\ req[r].city = c) =>
           req[r].geoCalls = 0 /\ req[r].inserts = 0

\* C4: nothing serializes or deduplicates the inserts: the rows named c are
\* at least as many as the handlers in flight whose insert of c succeeded,
\* so two handlers that both read a miss both add a row.
C4_EveryInsertAddsARow ==
  \A c \in Names :
    Cardinality(RowsNamed(cities, c)) >=
      Cardinality({r \in Slots : /\ req[r].pc # "idle"
                                 /\ req[r].city = c
                                 /\ req[r].inserts = 1
                                 /\ req[r].insertErr = Nil})

\* two handlers of the same name both read a miss, both called the geocoding
\* service, both inserted: two rows of that name
C4_Witness ==
  \E r1, r2 \in Slots :
    /\ r1 # r2
    /\ req[r1].city = req[r2].city
    /\ MissInserted(req[r1])
    /\ MissInserted(req[r2])
    /\ Cardinality(RowsNamed(cities, req[r1].city)) = 2

\* C5: a handler whose geocoding call returned zero results has failed with
\* "no results found", without coordinates and without an insert.
C5_NoResultsFails ==
  \A r \in Slots :
    (req[r].geoCalls = 1 /\ req[r].geoReply.kind = "ok" /\ req[r].geoReply.results = <<>>) =>
      /\ req[r].pc = "done"
      /\ req[r].err = ErrNoResults
      /\ req[r].latlong = NilLatLong
      /\ req[r].status = 500
      /\ req[r].inserts = 0

C5_Witness ==
  \E r \in Slots :
    /\ req[r].getErr = ErrNoRows
    /\ req[r].geoCalls = 1
    /\ req[r].geoReply.kind = "ok"
    /\ req[r].geoReply.results = <<>>
    /\ req[r].err = ErrNoResults

\* C6: a handler whose read of the table failed with an error other than
\* "no rows" makes no geocoding call and no insert, and ends with the store
\* error.
C6_ReadErrorStops ==
  \A r \in Slots :
    req[r].getErr = ErrStore =>
      /\ req[r].geoCalls = 0
      /\ req[r].inserts = 0
      /\ (req[r].pc = "done" => req[r].err = ErrStore)

\* C7: a handler whose insert failed has answered 500 with the store error,
\* without coordinates and without a forecast call.
C7_InsertErrorStops ==
  \A r \in Slots :
    req[r].insertErr = ErrStore =>
      /\ req[r].pc = "done"
      /\ req[r].status = 500
      /\ req[r].err = ErrStore
      /\ req[r].latlong = NilLatLong
      /\ req[r].wxCalls = 0
      /\ req[r].fmtCalls = 0
      /\ req[r].display = EmptyDisplay

C7_Witness ==
  \E r \in Slots :
    /\ GotResult(req[r])
    /\ req[r].inserts = 1
    /\ req[r].insertErr = ErrStore
    /\ req[r].pc = "done"

\* getLatLong returned coordinates to the handler
Resolved(rec) ==
  /\ rec.latlong # NilLatLong
  /\ \/ rec.getErr = Nil
     \/ GotResult(rec) /\ rec.inserts = 1 /\ rec.insertErr = Nil

C9_LatestSearchFirst ==
  (hist.allOk /\ hist.lastOk # "" /\ \A r \in Slots : ~Running(req[r])) =>
    LET listed == getLastCities(cities, TRUE).cities
    IN listed # <<>> /\ listed[1] = hist.lastOk

\* C10: a listing that /stats answered holds at most 10 names, as many as
\* there are rows up to 10, and its i-th name is the name of the row that
\* has exactly i - 1 rows of a larger id.
C10_LastTenDescending ==
  statsResp.status = 200 =>
    LET listed == statsResp.cities
        n == Cardinality(cities)
    IN /\ Len(listed) <= 10
       /\ Len(listed) = (IF n > 10 THEN 10 ELSE n)
       /\ \A i \in 1..Len(listed) :
            \E row \in cities :
              /\ row.name = listed[i]
              /\ Cardinality({other \in cities : other.id > row.id}) = i - 1

\* more than 10 rows listed, the newest and the tenth newest of different names
C10_Witness ==
  /\ statsResp.status = 200
  /\ Cardinality(cities) > 10
  /\ Len(statsResp.cities) = 10
  /\ statsResp.cities[1] # statsResp.cities[10]

\* extractWeatherData ran in handler rec on a body that decoded
Formatted(rec) == rec.pc = "done" /\ rec.fmtCalls = 1 /\ Unmarshals(rec.weather)

AllParse(times) == \A i \in 1..Len(times) : ParseOk(times[i])

\* the weekday of a date by Zeller's congruence
ZellerWeekday(y, mo, d) ==
  LET m == IF mo < 3 THEN mo + 12 ELSE mo
      yy == IF mo < 3 THEN y - 1 ELSE y
      K == yy % 100
      J == yy \div 100
      h == (d + ((13 * (m + 1)) \div 5) + K + (K \div 4) + (J \div 4) + 5 * J) % 7
  IN <<"Sat", "Sun", "Mon", "Tue", "Wed", "Thu", "Fri">>[h + 1]

\* the forecast shows time entry t: weekday, day, month, hour and minute
ShowsTime(forecast, t) ==
  /\ forecast.Date.day = t[3]
  /\ forecast.Date.month = MonthNames[t[2]]
  /\ forecast.Date.hour = <<t[4] \div 10, t[4] % 10>>
  /\ forecast.Date.minute = <<t[5] \div 10, t[5] % 10>>
  /\ forecast.Date.weekday = ZellerWeekday(t[1], t[2], t[3])

Abs(n) == IF n < 0 THEN -n ELSE n

\* the forecast shows temperature x (thousandths) with one decimal: one digit
\* after the point, at most half a tenth from x, and the suffix
ShowsTemperature(forecast, x) ==
  LET number == forecast.Temperature.number
  IN /\ forecast.Temperature.suffix = "°C"
     /\ Len(number.frac) = 1
     /\ number.frac[1] \in 0..9
     /\ number.neg = (x < 0)
     /\ Abs((10 * number.whole + number.frac[1]) * 100 - Abs(x)) <= 50

\* C11 as stated: a decoded payload of N time entries and N temperature
\* entries is answered with N forecasts, the i-th of the i-th time and the
\* i-th temperature, the temperature with one decimal and the suffix.
C11_EqualLengthsGiveNForecasts ==
  \A r \in Slots :
    LET rec == req[r]
        body == rec.weather
    IN (Formatted(rec) /\ Len(body.time) = Len(body.temperature_2m)) =>
         /\ rec.err = Nil
         /\ Len(rec.extracted.Forecasts) = Len(body.time)
         /\ \A i \in 1..Len(body.time) :
              /\ ShowsTime(rec.extracted.Forecasts[i], body.time[i])
              /\ ShowsTemperature(rec.extracted.Forecasts[i], body.temperature_2m[i])

\* C11, amended: a decoded payload of N time entries that all parse in the
\* layout and N temperature entries is answered with the city and N
\* forecasts, the i-th of the i-th time and the i-th temperature, the
\* temperature with exactly one decimal and the suffix.
C11_ParsableEqualLengthsGiveNForecasts ==
  \A r \in Slots :
    LET rec == req[r]
        body == rec.weather
    IN (/\ Formatted(rec)
        /\ Len(body.time) = Len(body.temperature_2m)
        /\ AllParse(body.time)) =>
         /\ rec.err = Nil
         /\ rec.status = 200
         /\ rec.extracted.City = rec.city
         /\ rec.display = rec.extracted
         /\ Len(rec.extracted.Forecasts) = Len(body.time)
         /\ \A i \in 1..Len(body.time) :
              /\ ShowsTime(rec.extracted.Forecasts[i], body.time[i])
              /\ ShowsTemperature(rec.extracted.Forecasts[i], body.temperature_2m[i])

\* three entries formatted, of different times and different temperatures,
\* 21.45 among them
C11_Witness ==
  \E r \in Slots :
    /\ Formatted(req[r])
    /\ req[r].status = 200
    /\ Len(req[r].weather.time) = MaxEntries
    /\ Len(req[r].extracted.Forecasts) = MaxEntries
    /\ req[r].weather.time[1] # req[r].weather.time[2]
    /\ req[r].weather.temperature_2m[1] = 21450
    /\ req[r].weather.temperature_2m[2] = -40
    /\ req[r].extracted.Forecasts[1].Temperature.number =
         [neg |-> FALSE, whole |-> 21, frac |-> <<4>>]

\* the position of the first time entry that does not parse, 0 if all do
FirstBad(times) ==
  IF AllParse(times) THEN 0
  ELSE CHOOSE i \in 1..Len(times) :
         ~ParseOk(times[i]) /\ \A j \in 1..(i - 1) : ParseOk(times[j])

\* C12 as stated: a decoded payload with a time entry that does not parse,
\* wherever it stands, ends in the time-parse error and the empty display.
C12_BadTimestampFails ==
  \A r \in Slots :
    (Formatted(req[r]) /\ ~AllParse(req[r].weather.time)) =>
      /\ req[r].err = ErrTimeParse
      /\ req[r].extracted = EmptyDisplay

\* C12, amended: a decoded payload whose first time entry that does not
\* parse has a temperature for every entry before it ends in the time-parse
\* error and the empty display, the entries converted before it dropped.
C12_ReachedBadTimestampFails ==
  \A r \in Slots :
    LET body == req[r].weather
    IN (/\ Formatted(req[r])
        /\ ~AllParse(body.time)
        /\ FirstBad(body.time) - 1 <= Len(body.temperature_2m)) =>
         /\ req[r].err = ErrTimeParse
         /\ req[r].extracted = EmptyDisplay
         /\ req[r].status = 500
         /\ req[r].display = EmptyDisplay

\* the third entry is the first that does not parse, two were converted
C12_Witness ==
  \E r \in Slots :
    /\ Formatted(req[r])
    /\ FirstBad(req[r].weather.time) = 3
    /\ Len(req[r].weather.temperature_2m) >= 2
    /\ req[r].err = ErrTimeParse
    /\ req[r].extracted = EmptyDisplay

\* C13 as stated: a decoded payload whose arrays differ in length ends in
\* the out-of-bounds failure.
C13_LengthMismatchPanics ==
  \A r \in Slots :
    (Formatted(req[r]) /\ Len(req[r].weather.time) # Len(req[r].weather.temperature_2m)) =>
      req[r].err = ErrIndexRange

\* C13, amended: a decoded payload with more time entries than temperatures,
\* whose time entries parse up to the first without a temperature, ends in
\* the out-of-bounds failure, answered 500 without a display; one with more
\* temperatures than time entries, all parsing, is answered with as many
\* forecasts as time entries, the temperatures beyond them left out.
C13_MissingTemperaturePanics ==
  \A r \in Slots :
    LET rec == req[r]
        times == rec.weather.time
        temps == rec.weather.temperature_2m
    IN Formatted(rec) =>
         /\ (/\ Len(times) > Len(temps)
             /\ \A i \in 1..(Len(temps) + 1) : ParseOk(times[i])) =>
               /\ rec.err = ErrIndexRange
               /\ rec.status = 500
               /\ rec.sent = "nothing"
               /\ rec.extracted = EmptyDisplay
               /\ rec.display = EmptyDisplay
         /\ (Len(times) < Len(temps) /\ AllParse(times)) =>
               /\ rec.err = Nil
               /\ rec.status = 200
               /\ Len(rec.extracted.Forecasts) = Len(times)

\* three time entries and one temperature: the second entry panics, the
\* third, which does not parse, is never read
C13_Witness ==
  \E r \in Slots :
    /\ Formatted(req[r])
    /\ Len(req[r].weather.time) = 3
    /\ Len(req[r].weather.temperature_2m) = 1
    /\ FirstBad(req[r].weather.time) = 3
    /\ req[r].err = ErrIndexRange
    /\ req[r].status = 500

\* the handler of the scenario: "Berlin", the geocoding service answered the
\* one result (52.52, 13.40), which was stored, and the forecast service
\* answered time ["2024-06-01T12:00"] and temperature_2m [21.4]
BerlinScenario(rec) ==
  /\ rec.pc = "done"
  /\ rec.city = "Berlin"
  /\ rec.geoCalls = 1
  /\ rec.geoReply = [kind |-> "ok", results |-> <<LatLong(5252, 1340)>>]
  /\ rec.inserts = 1
  /\ rec.insertErr = Nil
  /\ rec.wxCalls = 1
  /\ rec.wxErr = Nil
  /\ Unmarshals(rec.weather)
  /\ rec.weather.time = <<(<<2024, 6, 1, 12, 0>>)>>
  /\ rec.weather.temperature_2m = <<21400>>

\* {city "Berlin", forecasts [{date "Sat, 1 Jun 12:00", temperature "21.4°C"}]}
BerlinDisplay ==
  [City |-> "Berlin",
   Forecasts |->
     <<[Date |-> [weekday |-> "Sat", day |-> 1, month |-> "Jun",
                  hour |-> <<1, 2>>, minute |-> <<0, 0>>],
        Temperature |-> [number |-> [neg |-> FALSE, whole |-> 21, frac |-> <<4>>],
                         suffix |-> "°C"]]>>]

NextvalStep(r) == req[r].pc = "insert" /\ req'[r].pc = "commit"

\* no row is removed or changed: every row stays, under its id, as it was
AppendOnly == cities \subseteq cities'

\* C15 as stated: no step removes or changes a row, and a row that a step
\* adds has an id above every id the table held before the step.
C15_AppendOnlyIncreasingIds ==
  [][/\ AppendOnly
     /\ \A new \in cities' \ cities : \A old \in cities : new.id > old.id]_vars

\* C15, amended: no step removes or changes a row; the id an insert takes is
\* above every id the table holds at that moment, and the row it adds later
\* carries that id, which no row of the table has.
C15_AppendOnlyFreshIds ==
  [][/\ AppendOnly
     /\ \A r \in Slots :
          NextvalStep(r) => \A old \in cities : req'[r].rowId > old.id
     /\ \A new \in cities' \ cities :
          /\ cities' = cities \cup {new}
          /\ \A old \in cities : new.id # old.id
          /\ \E r \in Slots : req[r].pc = "commit" /\ req[r].rowId = new.id]_vars

\* an insert took its id, and before its row joined the table the insert of
\* another handler, which took a larger id, added its row
C15_Witness ==
  \E r, s \in Slots :
    /\ req[r].pc = "commit"
    /\ req[s].inserts = 1
    /\ req[s].insertErr = Nil
    /\ \E row \in RowsNamed(cities, req[s].city) : row.id > req[r].rowId

\* C16: a /stats request whose credentials are not forecast:forecast is
\* answered 401 without a read of the table and without a list; a response
\* that read the table or carries a list answered those credentials.
C16_StatsBehindBasicAuth ==
  LET valid == statsResp.creds = [user |-> "forecast", pass |-> "forecast"]
  IN statsResp.status # 0 =>
       /\ ~valid => /\ statsResp.status = 401
                    /\ statsResp.storeReads = 0
                    /\ statsResp.cities = <<>>
       /\ (statsResp.storeReads > 0 \/ statsResp.cities # <<>>) => valid

\* the right user with a wrong password, rows in the table
C16_Witness ==
  /\ statsResp.status = 401
  /\ statsResp.creds = [user |-> "forecast", pass |-> "wrong"]
  /\ Cardinality(cities) >= 2

\* a stage of the handler failed: the read or the write of the store, the
\* geocoding call (transport, decoding, no result), the forecast call, or
\* the decoding or time parsing of the forecast
StageFailed(rec) ==
  \/ rec.getErr = ErrStore
  \/ rec.geoCalls = 1 /\ ~GotResult(rec)
  \/ rec.insertErr = ErrStore
  \/ rec.wxErr \in {ErrWeatherRequest, ErrWeatherRead}
  \/ rec.fmtCalls = 1 /\ ~Unmarshals(rec.weather)
  \/ rec.fmtCalls = 1 /\ Unmarshals(rec.weather) /\ rec.err = ErrTimeParse

\* C17: a handler that answered after a stage failed answered 500 with the
\* JSON error body, and a handler that answered 200 with the page had no
\* failed stage.
C17_EveryFailureAnswers500 ==
  \A r \in Slots :
    req[r].pc = "done" =>
      /\ StageFailed(req[r]) => req[r].status = 500 /\ req[r].sent = "json error"
      /\ req[r].status = 200 => ~StageFailed(req[r])

\* C18: a handler whose read of the table was a hit holds the coordinates
\* of a row whose name is its submitted name character for character; a
\* handler that inserted left a row under its submitted name as it is.
C18_ExactNameMatch ==
  \A r \in Slots :
    /\ req[r].getErr = Nil =>
         \E row \in cities :
           /\ row.name = req[r].city
           /\ req[r].latlong = Ptr(LatLong(row.lat, row.long))
    /\ (req[r].inserts = 1 /\ req[r].insertErr = Nil) =>
         \E row \in cities :
           /\ row.name = req[r].city
           /\ Ptr(LatLong(row.lat, row.long)) = req[r].fetched

\* "Berlin" has a row; the request for "berlin" read no row, called the
\* geocoding service and inserted a row of its own
C18_Witness ==
  \E r \in Slots :
    /\ req[r].city = "berlin"
    /\ req[r].getErr = ErrNoRows
    /\ MissInserted(req[r])
    /\ {row.name : row \in cities} = {"Berlin", "berlin"}
    /\ \E old, new \in cities :
         old.name = "Berlin" /\ new.name = "berlin" /\ old.id < new.id

\* the row of the smallest id among the rows of a name
OldestNamed(table, name) ==
  CHOOSE row \in RowsNamed(table, name) :
    \A other \in RowsNamed(table, name) : row.id <= other.id

\* C19: with one client at a time, a handler whose getLatLong has returned
\* and whose city has a row holds the coordinates that were stored for the
\* city first, whatever the geocoding service answers now.
C19_CachedCoordinatesKept ==
  \A r \in Slots :
    (req[r].pc \in {"weather", "done"} /\ RowsNamed(cities, req[r].city) # {}) =>
      LET first == OldestNamed(cities, req[r].city)
      IN req[r].latlong = Ptr(LatLong(first.lat, first.long))

\* the rows a listing of LIMIT 10 is made of: those with fewer than 10 rows
\* of a larger id
Newest(table) ==
  {row \in table : Cardinality({other \in table : other.id > row.id}) < 10}

\* C20: a listing that /stats answered holds every name as many times as
\* the most recent rows hold it.
C20_ListingKeepsDuplicates ==
  statsResp.status = 200 =>
    \A name \in Names :
      Cardinality({i \in 1..Len(statsResp.cities) : statsResp.cities[i] = name}) =
        Cardinality({row \in Newest(cities) : row.name = name})

\* more rows than the limit, one name held by at least three of the ten
\* most recent and listed as often, the other name between two of them
C20_Witness ==
  /\ statsResp.status = 200
  /\ Cardinality(cities) > 10
  /\ \E i, j, k \in 1..Len(statsResp.cities) :
       /\ i < j /\ j < k
       /\ statsResp.cities[i] = statsResp.cities[k]
       /\ statsResp.cities[j] # statsResp.cities[i]
  /\ \E name \in Names :
       Cardinality({i \in 1..Len(statsResp.cities) : statsResp.cities[i] = name}) >= 3

\* C21: a handler whose forecast call got a response and read its body holds
\* that body, unchanged, without an error, and went on to format it, whatever
\* the status of the response; its getWeather failed exactly when there was
\* no response or the body could not be read.
C21_StatusNotInspected ==
  \A r \in Slots :
    req[r].wxCalls = 1 =>
      /\ req[r].wxReply.kind = "ok" =>
           /\ req[r].wxErr = Nil
           /\ req[r].weather = req[r].wxReply.body
           /\ req[r].fmtCalls = 1
      /\ req[r].wxReply.kind = "neterr" => req[r].wxErr = ErrWeatherRequest
      /\ req[r].wxReply.kind = "readerr" => req[r].wxErr = ErrWeatherRead
      /\ req[r].wxErr # Nil =>
           /\ req[r].wxReply.kind \in {"neterr", "readerr"}
           /\ req[r].status = 500
           /\ req[r].fmtCalls = 0

\* a response of status 500 whose body was passed on and formatted
C21_Witness ==
  \E r \in Slots :
    /\ req[r].wxCalls = 1
    /\ req[r].wxReply.kind = "ok"
    /\ req[r].wxReply.code = 500
    /\ req[r].wxReply.body = BodyNoHourly
    /\ req[r].wxErr = Nil
    /\ req[r].weather = BodyNoHourly
    /\ req[r].status = 200

\* the body on its own has no hourly data
NoHourlyData(body) == body.time = <<>> /\ body.temperature_2m = <<>>

\* the handler answered 200 with its city and the empty forecast list
EmptyForecastPage(rec) ==
  /\ rec.fmtCalls = 1
  /\ rec.err = Nil
  /\ rec.extracted = [City |-> rec.city, Forecasts |-> <<>>]
  /\ rec.status = 200
  /\ rec.sent = "weather.html"
  /\ rec.display = rec.extracted

FetchStep(r) == req[r].pc = "fetch" /\ req'[r].pc # "fetch"

\* C23: the step in which the geocoding call of a handler fails or returns
\* zero results leaves the table and the sequence as they are and ends the
\* handler with the error, without coordinates and without an insert.
C23_FailedGeocodingInsertsNothing ==
  [][\A r \in Slots :
       (FetchStep(r) /\ ~GotResult(req'[r])) =>
         /\ cities' = cities
         /\ seq' = seq
         /\ req'[r].pc = "done"
         /\ req'[r].err \in {ErrGeoRequest, ErrGeoDecode, ErrNoResults}
         /\ req'[r].latlong = NilLatLong
         /\ req'[r].inserts = 0
         /\ req'[r].rowId = 0]_vars

\* a request for a name without a row whose geocoding call failed, the table
\* holding the row of an earlier request and no row of the name
C23_Witness ==
  \E r \in Slots :
    /\ req[r].pc = "done"
    /\ req[r].getErr = ErrNoRows
    /\ req[r].geoCalls = 1
    /\ req[r].geoReply.kind = "neterr"
    /\ req[r].inserts = 0
    /\ cities # {}
    /\ RowsNamed(cities, req[r].city) = {}

\* getWeather or extractWeatherData failed in the handler
LaterStageFailed(rec) ==
  \/ rec.wxErr \in {ErrWeatherRequest, ErrWeatherRead}
  \/ rec.fmtCalls = 1 /\ rec.err # Nil

\* with one client at a time: the rows of c were left by requests that
\* inserted and failed afterwards, and handler rec has not inserted
LeftByFailedRequest(c, rec) ==
  /\ RowsNamed(cities, c) # {}
  /\ c \notin hist.okCities
  /\ rec.inserts = 0
  /\ rec.rowId = 0

\* C24: with one client at a time, a request that inserted on a miss and
\* then failed in getWeather or extractWeatherData answered 500 and left its
\* row in the table; the name of such a row is in every list /stats
\* answers, and a later request for the name that has read the table had a
\* hit with stored coordinates and calls no geocoding service.
C24_RowSurvivesLaterFailure ==
  /\ \A r \in Slots :
       (req[r].pc = "done" /\ MissInserted(req[r]) /\ LaterStageFailed(req[r])) =>
         /\ req[r].status = 500
         /\ \E row \in RowsNamed(cities, req[r].city) :
              Ptr(LatLong(row.lat, row.long)) = req[r].fetched
  /\ \A c \in Names, r \in Slots :
       LeftByFailedRequest(c, req[r]) =>
         /\ statsResp.status = 200 =>
              \E i \in 1..Len(statsResp.cities) : statsResp.cities[i] = c
         /\ (req[r].city = c /\ req[r].dbGets = 1) =>
              /\ req[r].getErr = Nil
              /\ req[r].geoCalls = 0
              /\ req[r].latlong \in Stored(cities, c)

\* the step is the end of handler r's only insertCity, after its one
\* geocoding call gave a result, and row carries the id that statement took,
\* the name of the request and the first result of the call
WrittenBy(r, row) ==
  /\ req[r].pc = "commit"
  /\ req[r].inserts = 0
  /\ req'[r].inserts = 1
  /\ GotResult(req[r])
  /\ row.id = req[r].rowId
  /\ row.name = req[r].city
  /\ LatLong(row.lat, row.long) = req[r].geoReply.results[1]

\* C25: under any interleaving, a step adds at most one row, and a row it
\* adds is written by a handler whose geocoding call succeeded, under the
\* name submitted in that request and with the first result of that call;
\* the table never has more rows than there were successful geocoding
\* calls, and no request calls insertCity more than once.
C25_RowsComeFromGeocoding ==
  [][/\ Cardinality(cities' \ cities) <= 1
     /\ \A row \in cities' \ cities : \E r \in Slots : WrittenBy(r, row)
     /\ Cardinality(cities') <= hist'.geoOk
     /\ \A r \in Slots : req'[r].inserts <= 1]_vars

\* two requests for one name raced: each wrote its row from its own call,
\* one of them from a reply with two results
C25_Witness ==
  /\ Cardinality(cities) = 2
  /\ hist.geoOk = 2
  /\ \E r \in Slots :
       /\ req[r].inserts = 1
       /\ req[r].insertErr = Nil
       /\ Len(req[r].geoReply.results) = 2
       /\ \E row \in RowsNamed(cities, req[r].city) :
            LatLong(row.lat, row.long) = req[r].geoReply.results[1]
       /\ \E row \in RowsNamed(cities, req[r].city) :
            LatLong(row.lat, row.long) # req[r].geoReply.results[1]

\* the table, the sequence and the list /stats would show are as before
StoreSame ==
  /\ cities' = cities
  /\ seq' = seq
  /\ getLastCities(cities', TRUE) = getLastCities(cities, TRUE)

\* the step is one of handler r after its db.Get read a row
HitStep(r) == req'[r] # req[r] /\ req'[r].getErr = Nil

\* C26: a /stats request, a / request and every step of a /weather request
\* whose db.Get read a row leave the rows, the sequence and the listed
\* order as they were, and such a /weather request calls neither the
\* geocoding service nor insertCity.
C26_ReadOnlyOperations ==
  [][/\ (statsResp'.status # 0 \/ indexResp'.status # 0) => StoreSame
     /\ \A r \in Slots :
          HitStep(r) =>
            /\ StoreSame
            /\ req'[r].geoCalls = 0
            /\ req'[r].inserts = 0
            /\ req'[r].rowId = 0]_vars

\* a request that was a hit has answered 200; the table holds the one row
\* an earlier request wrote
C26_Witness ==
  \E r \in Slots :
    /\ req[r].pc = "done"
    /\ req[r].status = 200
    /\ req[r].getErr = Nil
    /\ req[r].inserts = 0
    /\ Cardinality(cities) = 1
    /\ hist.started >= 2

\* C27: with a geocoding service that gives each name one answer, a store
\* that does not fail and one request at a time, the cached and the
\* uncached variant pass the same coordinates to the forecast service and,
\* given the same reply, answer each request with the same status, the same
\* error and the same display; the cached variant calls the geocoding
\* service at most as often as the uncached one.
C27_CachedEquivalentToUncached ==
  /\ (req[1].wxCalls = 1 /\ req[2].wxCalls = 1) => req[1].latlong = req[2].latlong
  /\ (req[1].pc = "done" /\ req[2].pc = "done") =>
       /\ req[1].city = req[2].city
       /\ req[1].status = req[2].status
       /\ req[1].sent = req[2].sent
       /\ req[1].err = req[2].err
       /\ req[1].display = req[2].display
       /\ req[1].geoCalls <= req[2].geoCalls

\* a request served from the table and by the uncached variant: both
\* answered 200 with the same forecast, the cached one without geocoding
C27_Witness ==
  /\ req[1].pc = "done"
  /\ req[2].pc = "done"
  /\ req[1].getErr = Nil
  /\ req[1].geoCalls = 0
  /\ req[2].geoCalls = 1
  /\ req[1].status = 200
  /\ req[2].status = 200
  /\ Len(req[2].display.Forecasts) >= 1

\* the table holds rows of name c with different coordinates
SeveralCoordinates(c) == Cardinality(Stored(cities, c)) >= 2

\* C28: when rows of one name with different coordinates exist, a handler
\* that has read the table for that name had a hit: it holds the latitude
\* and the longitude of one of those rows, has no error from the read and
\* has not called the geocoding service.
C28_DuplicateRowsStillHit ==
  \A r \in Slots :
    (req[r].dbGets = 1 /\ SeveralCoordinates(req[r].city)) =>
      /\ req[r].getErr = Nil
      /\ req[r].geoCalls = 0
      /\ \E row \in RowsNamed(cities, req[r].city) :
           req[r].latlong = Ptr(LatLong(row.lat, row.long))

====
